---- MODULE Spec2Model ----
(***************************************************************************)
(* Swappy Labels: the inbox-processing endpoint (POST /api/gmail) in its   *)
(* two variants, against a model of the mail provider's account.          *)
(*                                                                         *)
(*   route "multi"  : src/src/app/page.tsx, lines 277-611 (two classifier  *)
(*                    backends, label exclusion query, emailId entry)      *)
(*   route "single" : src/src/app/api/gmail/route.ts (one backend with     *)
(*                    retries, plain "is:unread" query)                    *)
(*                                                                         *)
(* Every await of the handler is one step: the network call it waits for   *)
(* succeeds or throws, and the handler runs on to its next await.          *)
(*                                                                         *)
(*   Spec, SpecLarge : a processing request against an account             *)
(*   SpecFresh       : the same, on an inbox of unread unlabelled messages *)
(*   SpecClassify    : classifyEmail alone, every backend answer recorded  *)
(*   SpecExtract     : extractEmailBody over payload trees                 *)
(*   SpecSession     : the auth endpoints (src/src/app/api/auth/route.ts,  *)
(*                     src/src/app/api/auth/callback/route.ts), a browser  *)
(*                     and the identity provider                           *)
(*   SpecPage        : the page (src/unnamed/part_000) and its handlers    *)
(*   SpecOverlap     : two processing requests on one account              *)
(***************************************************************************)
EXTENDS Integers, Sequences, FiniteSets, TLC

VARIABLES
    labels,      \* the account's user labels: sequence of names, id = index
    msgs,        \* the account's messages: id -> [unread, labelIds]
    pc,          \* the handler's position (the await it is suspended on)
    req,         \* the request body: [route, accessToken, emailId]
    userEmail,   \* POST's local userEmail
    query,       \* the label names the listing query excludes
    emails,      \* the ids messages.list returned
    todo,        \* the ids POST runs the pipeline on
    idx,         \* position in todo of the message being processed
    cur,         \* the locals of the message being processed
    results,     \* POST's results array
    response,    \* the HTTP response, once sent
    calls,       \* the outbound calls of this request, in order, each with
                 \* the message it is made for and, for a mail-provider
                 \* call, whether it returned ("ok") or threw
    failures,    \* how many mail-provider calls of this request threw
    account0,    \* the account as it was when the request arrived
    heard,       \* what the classifier backends answered for the message
                 \* being classified, in order (kept when classifyEmail is
                 \* run on its own)
    payload,     \* the payload extractEmailBody is given
    body,        \* what extractEmailBody returned, once it has
    cookies,     \* the browser's access_token and refresh_token cookies
    authPc,      \* the position of the auth request being served
    authReq,     \* the auth request being served, or the last one served
    authResponse,\* the response to the last auth request
    tokens,      \* the callback's local tokens (what getToken returned)
    issued,      \* how many token pairs the identity provider has issued
    revoked,     \* the access tokens the identity provider no longer accepts
    page,        \* the page's React state and its running handlers
    reqs         \* the locals of the processing requests served at the same
                 \* time on one account (when requests overlap)

handlerVars == << labels, msgs, pc, req, userEmail, query, emails, todo, idx,
                  cur, results, response, calls, failures, account0 >>

extractorVars == << payload, body >>

sessionVars == << cookies, authPc, authReq, authResponse, tokens, issued,
                  revoked >>

pageVars == << page >>

overlapVars == << reqs >>

vars == << handlerVars, heard, extractorVars, sessionVars, pageVars,
           overlapVars >>

----------------------------------------------------------------------------
(* Bounds of the model *)

NumMsgs == 3
MaxFailures == 2

(* Program constants *)

MAX_EMAILS == 10
maxResults == 2
maxRetries == 2

validCategories ==
    << "Important", "Urgent", "Work", "Personal", "Finance", "Sales",
       "Promotions", "Newsletter", "Social", "Shopping", "Entertainment",
       "Health", "Education", "Automated", "Spamming", "Other" >>

Range(s) == { s[i] : i \in DOMAIN s }

Categories == Range(validCategories)

Min(a, b) == IF a < b THEN a ELSE b

----------------------------------------------------------------------------
(* Values *)

None == "<none>"          \* undefined / absent (a string)
NoId == 0                 \* no emailId in the request body
MsgIds == 1 .. NumMsgs
Routes == { "multi", "single" }
Tokens == { None, "good", "bad" }   \* absent, accepted, rejected by provider

\* The Subject header of each message, None when the message has none.
SubjectHeader(m) == IF m = 1 THEN None ELSE "Hello"

\* The message of the Error each failing call throws.
ErrMsg(kind) == kind \o " failed"

\* messages.get(...).data.payload.headers -> subject
SubjectOf(m) == IF SubjectHeader(m) = None THEN "No Subject" ELSE SubjectHeader(m)

----------------------------------------------------------------------------
(* The mail provider *)

\* Mutant of FindLabel: the lookup never finds the label.
FindLabelNever(name) == 0

\* labels.find(label => label.name === name): the id, or 0 when there is none.
FindLabel(name) ==
    IF \E i \in DOMAIN labels : labels[i] = name
    THEN CHOOSE i \in DOMAIN labels :
            /\ labels[i] = name
            /\ \A j \in DOMAIN labels : labels[j] = name => i <= j
    ELSE 0

\* The names of the labels message m bears.
LabelNamesOf(m) == { labels[i] : i \in msgs[m].labelIds \cap DOMAIN labels }

\* The category labels message m bears.
CategoryLabelsOf(m) == LabelNamesOf(m) \cap Categories

\* Whether m matches  is:unread -label:"n1" -label:"n2" ...
Matches(m, excluded) ==
    /\ msgs[m].unread
    /\ LabelNamesOf(m) \cap Range(excluded) = {}

RECURSIVE SortedSeq(_)
SortedSeq(S) ==
    IF S = {} THEN << >>
    ELSE LET lo == CHOOSE x \in S : \A y \in S : x <= y
         IN  << lo >> \o SortedSeq(S \ { lo })

\* messages.list({q, maxResults}): the first maxRes matching ids.
Listing(excluded, maxRes) ==
    LET all == SortedSeq({ m \in DOMAIN msgs : Matches(m, excluded) })
    IN  SubSeq(all, 1, Min(Len(all), maxRes))

\* A provider call throws for a rejected token, and may throw otherwise.
MayFail == req.accessToken = "bad" \/ failures < MaxFailures
MaySucceed == req.accessToken = "good"

----------------------------------------------------------------------------
(* Result records *)

\* Mutants of ErrorResult: a failed record without its error text / with
\* usage fields.
ErrorResultSilent(id, message) ==
    [ id |-> id, subject |-> "Error processing email", category |-> "Error",
      labeled |-> FALSE ]

ErrorResultWithUsage(id, message) ==
    [ id |-> id, subject |-> "Error processing email", category |-> "Error",
      labeled |-> FALSE, error |-> message, tokens |-> 0, cost |-> 0 ]

\* Mutant of ErrorResult: the error's text is replaced by the generic one.
ErrorResultGeneric(id, message) ==
    [ id |-> id, subject |-> "Error processing email", category |-> "Error",
      labeled |-> FALSE, error |-> "Unknown error" ]

ErrorResult(id, message) ==
    [ id |-> id, subject |-> "Error processing email", category |-> "Error",
      labeled |-> FALSE, error |-> message ]

SuccessResult(route, c) ==
    IF route = "multi"
    THEN [ id |-> c.id, subject |-> c.subject, category |-> c.category,
           labeled |-> TRUE, model |-> c.model, tokens |-> c.tokens,
           cost |-> c.cost ]
    ELSE [ id |-> c.id, subject |-> c.subject, category |-> c.category,
           labeled |-> TRUE ]

NoCur == [ id |-> 0, subject |-> None, category |-> None, model |-> None,
           tokens |-> 0, cost |-> 0, labelId |-> 0, retries |-> 0 ]

NoResponse == [ status |-> 0 ]

----------------------------------------------------------------------------
(* The other components, at rest while a processing request is served *)

\* extractEmailBody's argument when the message has no payload (!payload),
\* and its result before it has run.
NoPayload == << >>
NotExtracted == [ done |-> FALSE, text |-> << >> ]

ExtractorIdle == payload = NoPayload /\ body = NotExtracted

\* The value of a cookie the browser does not hold; tokens are numbered
\* from 1 in the order the identity provider issues them.
NoToken == 0
NoCookies == [ access_token |-> NoToken, refresh_token |-> NoToken ]
NoTokens == [ access_token |-> NoToken, refresh_token |-> NoToken ]
NoAuthReq == [ endpoint |-> None, n |-> 0, code |-> None ]
NoAuthResponse == [ endpoint |-> None ]

SessionIdle ==
    /\ cookies = NoCookies
    /\ authPc = "idle"
    /\ authReq = NoAuthReq
    /\ authResponse = NoAuthResponse
    /\ tokens = NoTokens
    /\ issued = 0
    /\ revoked = {}

\* The page before it is loaded (the useState initial values, no handler
\* running), and no overlapping requests.
NoPage ==
    [ mounted |-> FALSE, isAuthenticated |-> FALSE, isProcessing |-> FALSE,
      error |-> None, success |-> None, runs |-> << >>, logouts |-> 0,
      clicks |-> 0, exits |-> {} ]

PageIdle == page = NoPage

NoReqs == << >>

OverlapIdle == reqs = NoReqs

----------------------------------------------------------------------------
\* An inbox of unread messages without labels,
Fresh == [ m \in MsgIds |-> [ unread |-> TRUE, labelIds |-> {} ] ]

\* in which at most one message is already read, or already bears the
\* account's "Work" label (by a filter, or marked unread again by the user).
Inboxes(ls) ==
    { Fresh }
    \cup { [ Fresh EXCEPT ![m] = [ unread |-> FALSE, labelIds |-> {} ] ] : m \in MsgIds }
    \cup { [ Fresh EXCEPT ![m] = [ unread |-> TRUE, labelIds |-> { i } ] ] :
              m \in MsgIds, i \in { j \in DOMAIN ls : ls[j] = "Work" } }

Init ==
    /\ labels \in { << >>, << "Travel", "Work" >> }
    /\ msgs \in Inboxes(labels)
    /\ pc = "idle"
    /\ req = [ route |-> None, accessToken |-> None, emailId |-> NoId ]
    /\ userEmail = ""
    /\ query = << >>
    /\ emails = << >>
    /\ todo = << >>
    /\ idx = 0
    /\ cur = NoCur
    /\ results = << >>
    /\ response = NoResponse
    /\ calls = << >>
    /\ failures = 0
    /\ account0 = [ labels |-> labels, msgs |-> msgs ]
    /\ heard = << >>
    /\ ExtractorIdle
    /\ SessionIdle
    /\ PageIdle
    /\ OverlapIdle

----------------------------------------------------------------------------
(* Classifier backends *)

\* Reply texts are sequences of chunks: a chunk is whitespace (" ") or a word.
IsSpace(ch) == ch = " "

RECURSIVE TrimLeft(_)
TrimLeft(t) ==
    IF t # << >> /\ IsSpace(Head(t)) THEN TrimLeft(Tail(t)) ELSE t

RECURSIVE TrimRight(_)
TrimRight(t) ==
    IF t # << >> /\ IsSpace(t[Len(t)]) THEN TrimRight(SubSeq(t, 1, Len(t) - 1))
    ELSE t

\* String.prototype.trim
Trim(t) == TrimRight(TrimLeft(t))

\* category && validCategories.includes(category), for a trimmed reply text:
\* the text is one word and that word is a category.
IncludesText(t) == Len(t) = 1 /\ t[1] \in Categories

\* claudeCategory && validCategories.includes(claudeCategory)
IncludesValue(v) == v # None /\ v \in Categories

\* What the secondary backend may answer: a JSON object with or without a
\* category field, or text that is not JSON (JSON.parse throws on it).
ClaudeTexts ==
    { [ kind |-> "object", category |-> "Work" ],
      [ kind |-> "object", category |-> "Travel" ],
      [ kind |-> "object", category |-> None ],
      [ kind |-> "plain", category |-> "Work" ] }

ClaudeUsages == { [ input_tokens |-> 30, output_tokens |-> 8 ] }

ClaudeReplies == { [ text |-> t, usage |-> u ] : t \in ClaudeTexts, u \in ClaudeUsages }

\* What the primary backend may answer: result.text (hasText is FALSE when
\* it is absent) and usageMetadata.totalTokenCount.
\* count is totalTokenCount; 0 stands for an absent count too (the code reads
\* usageMetadata?.totalTokenCount || 0).
GeminiReplies ==
    { [ hasText |-> TRUE, text |-> << " ", "Finance", " " >>, count |-> 40 ],
      [ hasText |-> TRUE, text |-> << "Work" >>, count |-> 0 ],
      [ hasText |-> TRUE, text |-> << "Work", " ", "Finance" >>, count |-> 40 ],
      [ hasText |-> TRUE, text |-> << "Travel" >>, count |-> 40 ],
      [ hasText |-> TRUE, text |-> << " " >>, count |-> 40 ],
      [ hasText |-> TRUE, text |-> << >>, count |-> 0 ],
      [ hasText |-> FALSE, text |-> << >>, count |-> 0 ] }

\* Money is counted in units of 10^-7 USD, so that 0.8 / 1000000 is 8 units.
ClaudeCost(u) == u.input_tokens * 8 + u.output_tokens * 40
GeminiCost(n) == n * 12500000

\* Mutant of ClaudeAccepts: no reply of the secondary backend is taken.
ClaudeAcceptsNever(reply) == FALSE

\* Mutant of ClaudeAccepts: any category field is taken, member or not.
ClaudeAcceptsUnchecked(reply) ==
    reply.text.kind = "object" /\ reply.text.category # None

\* classifyEmail, route "multi", the Claude block: whether it returns (it
\* falls through to Gemini otherwise), and the ClassificationResult it returns.
ClaudeAccepts(reply) ==
    reply.text.kind = "object" /\ IncludesValue(reply.text.category)

ClaudeOutcome(reply) ==
    [ category |-> reply.text.category, model |-> "anthropic",
      tokens |-> reply.usage.input_tokens + reply.usage.output_tokens,
      cost |-> ClaudeCost(reply.usage) ]

\* result.text?.trim() || ""
GeminiCategory(reply) == IF reply.hasText THEN Trim(reply.text) ELSE << >>

\* Mutant of GeminiAccepts: any one-word reply is taken, member or not.
GeminiAcceptsUnchecked(reply) == Len(GeminiCategory(reply)) = 1

\* classifyEmail, route "multi", the Gemini block.
GeminiAccepts(reply) == IncludesText(GeminiCategory(reply))

GeminiOutcome(reply) ==
    [ category |-> GeminiCategory(reply)[1], model |-> "gemini",
      tokens |-> reply.count, cost |-> GeminiCost(reply.count) ]

Fallback == [ category |-> "Other", model |-> "fallback", tokens |-> 0, cost |-> 0 ]

SingleFallback == "Personal"

----------------------------------------------------------------------------
(* The handler *)

Call(kind, id, outcome) ==
    calls' = Append(calls, [ kind |-> kind, id |-> id, outcome |-> outcome ])

\* A mail-provider call that returns / that throws.
Returned(kind, id) ==
    /\ MaySucceed
    /\ Call(kind, id, "ok")
    /\ UNCHANGED failures

Threw(kind, id) ==
    /\ MayFail
    /\ Call(kind, id, "threw")
    /\ failures' = failures + 1

Respond(r) ==
    /\ response' = r
    /\ pc' = "done"

\* NextResponse.json({ results, userEmail }) / NextResponse.json({ results })
OkBody(rs) ==
    IF req.route = "multi"
    THEN [ status |-> 200, results |-> rs, userEmail |-> userEmail ]
    ELSE [ status |-> 200, results |-> rs ]

\* Mutant of Pushed: results.unshift(r).
PushedFront(rs, r) == << r >> \o rs

\* results.push(r)
Pushed(rs, r) == Append(rs, r)

\* Mutant of LoopContinues: a failed message ends the loop.
LoopStopsOnError(r) == idx < Len(todo) /\ r.labeled

\* Whether the for loop goes on after the idx-th message's record r.
LoopContinues(r) == idx < Len(todo)

\* The per-message boundary: record r for the current message and go on with
\* the next one, or answer when it was the last.
Push(r) ==
    /\ results' = Pushed(results, r)
    /\ IF LoopContinues(r)
       THEN /\ idx' = idx + 1
            /\ cur' = [ NoCur EXCEPT !.id = todo[idx + 1] ]
            /\ pc' = "get"
            /\ UNCHANGED response
       ELSE /\ Respond(OkBody(Pushed(results, r)))
            /\ UNCHANGED << idx, cur >>

\* Mutant of TokenMissing: the guard is gone.
TokenMissingIgnored(token) == FALSE

\* if (!accessToken)
TokenMissing(token) == token = None

\* const { accessToken, emailId } = await request.json(); if (!accessToken) ...
Receive(route, token, emailId) ==
    /\ pc = "idle"
    /\ route = "single" => emailId = NoId
    /\ req' = [ route |-> route, accessToken |-> token, emailId |-> emailId ]
    /\ IF TokenMissing(token)
       THEN Respond([ status |-> 400, error |-> "Access token required" ])
       ELSE /\ pc' = IF route = "multi" THEN "getProfile" ELSE "list"
            /\ UNCHANGED response
    /\ UNCHANGED << labels, msgs, userEmail, query, emails, todo, idx, cur,
                    results, calls, failures, account0 >>
    /\ UNCHANGED << heard, extractorVars, sessionVars, pageVars, overlapVars >>

\* gmail.users.getProfile, in its own try/catch
GetProfile ==
    /\ pc = "getProfile"
    /\ \/ /\ Returned("users.getProfile", 0)
          /\ userEmail' = "me@example.com"
       \/ /\ Threw("users.getProfile", 0)
          /\ UNCHANGED userEmail
    /\ pc' = "getCustomLabelNames"
    /\ UNCHANGED << labels, msgs, req, query, emails, todo, idx, cur, results,
                    response, account0 >>
    /\ UNCHANGED << heard, extractorVars, sessionVars, pageVars, overlapVars >>

\* The names getCustomLabelNames collects from a successful labels.list.
MatchingLabelNames == SelectSeq(labels, LAMBDA n : n \in Categories)

\* What getCustomLabelNames returns from its catch block.
NamesOnError == << >>

GetCustomLabelNames ==
    /\ pc = "getCustomLabelNames"
    /\ \/ /\ Returned("labels.list", 0)
          /\ query' = MatchingLabelNames
       \/ /\ Threw("labels.list", 0)
          /\ query' = NamesOnError
    /\ pc' = "list"
    /\ UNCHANGED << labels, msgs, req, userEmail, emails, todo, idx, cur,
                    results, response, account0 >>
    /\ UNCHANGED << heard, extractorVars, sessionVars, pageVars, overlapVars >>

\* maxResults of the route's messages.list call
MaxResultsOf(route) == IF route = "multi" THEN MAX_EMAILS ELSE maxResults

\* emails.find((email) => email.id === emailId)
Found(listed, emailId) == \E i \in DOMAIN listed : listed[i] = emailId

\* Mutant of Targets: the pipeline is run a second time on every message.
TargetsTwice(listed, emailId) == listed \o listed

\* The ids POST runs the pipeline on: the listed ones, or the one asked for.
Targets(listed, emailId) ==
    IF emailId = NoId THEN listed
    ELSE IF Found(listed, emailId) THEN << emailId >>
    ELSE << >>

\* Mutant of BatchFailure: the listing error is swallowed into an empty answer.
BatchFailureAsEmpty == [ status |-> 200, results |-> << >> ]

\* POST's outer catch: NextResponse.json({ error }, { status: 500 })
BatchFailure == [ status |-> 500, error |-> "Failed to process emails" ]

MessagesList ==
    /\ pc = "list"
    /\ \/ /\ Returned("messages.list", 0)
          /\ LET listed == Listing(query, MaxResultsOf(req.route))
                 t == Targets(listed, req.emailId)
             IN  /\ emails' = listed
                 /\ todo' = t
                 /\ IF req.emailId # NoId /\ ~ Found(listed, req.emailId)
                    THEN /\ Respond([ status |-> 404,
                                      error |-> "Email not found or already processed" ])
                         /\ UNCHANGED << idx, cur >>
                    ELSE IF t = << >>
                    THEN /\ Respond(OkBody(<< >>))
                         /\ UNCHANGED << idx, cur >>
                    ELSE /\ idx' = 1
                         /\ cur' = [ NoCur EXCEPT !.id = t[1] ]
                         /\ pc' = "get"
                         /\ UNCHANGED response
       \/ /\ Threw("messages.list", 0)
          /\ Respond(BatchFailure)
          /\ UNCHANGED << emails, todo, idx, cur >>
    /\ UNCHANGED << labels, msgs, req, userEmail, query, results, account0 >>
    /\ UNCHANGED << heard, extractorVars, sessionVars, pageVars, overlapVars >>

\* gmail.users.messages.get and the header lookups
MessagesGet ==
    /\ pc = "get"
    /\ \/ /\ Returned("messages.get", cur.id)
          /\ cur' = [ cur EXCEPT !.subject = SubjectOf(cur.id) ]
          /\ pc' = IF req.route = "multi" THEN "claude" ELSE "gemini"
          /\ UNCHANGED << results, response, idx >>
       \/ /\ Threw("messages.get", cur.id)
          /\ Push(ErrorResult(cur.id, ErrMsg("messages.get")))
    /\ UNCHANGED << labels, msgs, req, userEmail, query, emails, todo, account0 >>
    /\ UNCHANGED << heard, extractorVars, sessionVars, pageVars, overlapVars >>

Classified(c) ==
    /\ cur' = [ cur EXCEPT !.category = c.category, !.model = c.model,
                           !.tokens = c.tokens, !.cost = c.cost ]
    /\ pc' = "ensureList"

\* What one backend call adds to heard: that it threw, or its reply.
Heard(backend, threw, reply) ==
    IF threw THEN [ backend |-> backend, threw |-> TRUE ]
    ELSE [ backend |-> backend, threw |-> FALSE, reply |-> reply ]

\* classifyEmail, route "multi": anthropic.messages.create threw, or it
\* replied (JSON.parse throws on a reply that is not an object)
ClaudeStep(threw, reply) ==
    /\ pc = "claude"
    /\ Call("anthropic", cur.id, "done")
    /\ IF ~ threw /\ ClaudeAccepts(reply)
       THEN Classified(ClaudeOutcome(reply))
       ELSE pc' = "gemini" /\ UNCHANGED cur
    /\ UNCHANGED << labels, msgs, req, userEmail, query, emails, todo, idx,
                    results, response, failures, account0 >>
    /\ UNCHANGED << extractorVars, sessionVars, pageVars, overlapVars >>

ClassifyClaude ==
    \E threw \in BOOLEAN, reply \in ClaudeReplies :
       ClaudeStep(threw, reply) /\ UNCHANGED heard

\* classifyEmail, route "multi": genAI.models.generateContent, then the
\* final fallback
GeminiStep(threw, reply) ==
    /\ pc = "gemini"
    /\ req.route = "multi"
    /\ Call("gemini", cur.id, "done")
    /\ IF ~ threw /\ GeminiAccepts(reply)
       THEN Classified(GeminiOutcome(reply))
       ELSE Classified(Fallback)
    /\ UNCHANGED << labels, msgs, req, userEmail, query, emails, todo, idx,
                    results, response, failures, account0 >>
    /\ UNCHANGED << extractorVars, sessionVars, pageVars, overlapVars >>

ClassifyGemini ==
    \E threw \in BOOLEAN, reply \in GeminiReplies :
       GeminiStep(threw, reply) /\ UNCHANGED heard

SingleClassified(category) ==
    /\ cur' = [ cur EXCEPT !.category = category ]
    /\ pc' = "ensureList"

\* Mutant of Exhausted: the default is returned one attempt early.
ExhaustedEarly(retries) == retries + 1 >= maxRetries

\* Mutant of Exhausted: one turn too many.
ExhaustedLate(retries) == retries > maxRetries

\* retries++; if (retries > maxRetries)
Exhausted(retries) == retries + 1 > maxRetries

\* classifyEmail, route "single": one turn of the while loop
GeminiRetryStep(threw, reply) ==
    /\ pc = "gemini"
    /\ req.route = "single"
    /\ Call("gemini", cur.id, "done")
    /\ IF ~ threw /\ GeminiAccepts(reply)
       THEN SingleClassified(GeminiCategory(reply)[1])
       ELSE IF Exhausted(cur.retries)
       THEN SingleClassified(SingleFallback)
       ELSE /\ cur' = [ cur EXCEPT !.retries = cur.retries + 1 ]
            /\ pc' = IF threw THEN "delay" ELSE "gemini"
    /\ UNCHANGED << labels, msgs, req, userEmail, query, emails, todo, idx,
                    results, response, failures, account0 >>
    /\ UNCHANGED << extractorVars, sessionVars, pageVars, overlapVars >>

ClassifyGeminiRetry ==
    \E threw \in BOOLEAN, reply \in GeminiReplies :
       GeminiRetryStep(threw, reply) /\ UNCHANGED heard

\* await new Promise((resolve) => setTimeout(resolve, 1000))
RetryDelay ==
    /\ pc = "delay"
    /\ Call("delay", cur.id, "done")
    /\ pc' = "gemini"
    /\ UNCHANGED << labels, msgs, req, userEmail, query, emails, todo, idx,
                    cur, results, response, failures, account0 >>
    /\ UNCHANGED << heard, extractorVars, sessionVars, pageVars, overlapVars >>

\* ensureLabelExists: labels.list and the lookup by name
EnsureLabelList ==
    /\ pc = "ensureList"
    /\ \/ /\ Returned("labels.list", cur.id)
          /\ IF FindLabel(cur.category) # 0
             THEN /\ cur' = [ cur EXCEPT !.labelId = FindLabel(cur.category) ]
                  /\ pc' = "modify"
             ELSE /\ pc' = "create"
                  /\ UNCHANGED cur
          /\ UNCHANGED << results, response, idx >>
       \/ /\ Threw("labels.list", cur.id)
          /\ Push(ErrorResult(cur.id, ErrMsg("labels.list")))
    /\ UNCHANGED << labels, msgs, req, userEmail, query, emails, todo, account0 >>
    /\ UNCHANGED << heard, extractorVars, sessionVars, pageVars, overlapVars >>

\* ensureLabelExists: labels.create
EnsureLabelCreate ==
    /\ pc = "create"
    /\ \/ /\ Returned("labels.create", cur.id)
          /\ labels' = Append(labels, cur.category)
          /\ cur' = [ cur EXCEPT !.labelId = Len(labels) + 1 ]
          /\ pc' = "modify"
          /\ UNCHANGED << results, response, idx >>
       \/ /\ Threw("labels.create", cur.id)
          /\ Push(ErrorResult(cur.id, ErrMsg("labels.create")))
          /\ UNCHANGED labels
    /\ UNCHANGED << msgs, req, userEmail, query, emails, todo, account0 >>
    /\ UNCHANGED << heard, extractorVars, sessionVars, pageVars, overlapVars >>

\* Mutant of Modified: the label is added and UNREAD is left in place.
ModifiedKeepsUnread(m, labelId) ==
    [ unread |-> m.unread, labelIds |-> m.labelIds \cup { labelId } ]

\* The message after modify({addLabelIds: [labelId], removeLabelIds: ["UNREAD"]})
Modified(m, labelId) ==
    [ unread |-> FALSE, labelIds |-> m.labelIds \cup { labelId } ]

\* gmail.users.messages.modify, then the success record
MessagesModify ==
    /\ pc = "modify"
    /\ \/ /\ Returned("messages.modify", cur.id)
          /\ msgs' = [ msgs EXCEPT ![cur.id] = Modified(msgs[cur.id], cur.labelId) ]
          /\ Push(SuccessResult(req.route, cur))
       \/ /\ Threw("messages.modify", cur.id)
          /\ Push(ErrorResult(cur.id, ErrMsg("messages.modify")))
          /\ UNCHANGED msgs
    /\ UNCHANGED << labels, req, userEmail, query, emails, todo, account0 >>
    /\ UNCHANGED << heard, extractorVars, sessionVars, pageVars, overlapVars >>

Next ==
    \/ \E route \in Routes, token \in Tokens, emailId \in MsgIds \cup { NoId } :
          Receive(route, token, emailId)
    \/ GetProfile
    \/ GetCustomLabelNames
    \/ MessagesList
    \/ MessagesGet
    \/ ClassifyClaude
    \/ ClassifyGemini
    \/ ClassifyGeminiRetry
    \/ RetryDelay
    \/ EnsureLabelList
    \/ EnsureLabelCreate
    \/ MessagesModify

Spec == Init /\ [][Next]_vars

----------------------------------------------------------------------------
(* An account holding one message more than one listing returns, to which  *)
(* requests for a single message (emailId) are sent.                       *)

LargeInbox == MAX_EMAILS + 1

InitLarge ==
    /\ labels = << >>
    /\ msgs = [ m \in 1 .. LargeInbox |-> [ unread |-> TRUE, labelIds |-> {} ] ]
    /\ pc = "idle"
    /\ req = [ route |-> None, accessToken |-> None, emailId |-> NoId ]
    /\ userEmail = ""
    /\ query = << >>
    /\ emails = << >>
    /\ todo = << >>
    /\ idx = 0
    /\ cur = NoCur
    /\ results = << >>
    /\ response = NoResponse
    /\ calls = << >>
    /\ failures = 0
    /\ account0 = [ labels |-> labels, msgs |-> msgs ]
    /\ heard = << >>
    /\ ExtractorIdle
    /\ SessionIdle
    /\ PageIdle
    /\ OverlapIdle

NextLarge ==
    \/ \E token \in Tokens, emailId \in 1 .. LargeInbox :
          Receive("multi", token, emailId)
    \/ GetProfile
    \/ GetCustomLabelNames
    \/ MessagesList
    \/ MessagesGet
    \/ ClassifyClaude
    \/ ClassifyGemini
    \/ EnsureLabelList
    \/ EnsureLabelCreate
    \/ MessagesModify

SpecLarge == InitLarge /\ [][NextLarge]_vars

----------------------------------------------------------------------------
(* classifyEmail on its own: one message has been fetched, and every       *)
(* answer of the backends is kept in heard.                                *)

InitClassify ==
    /\ labels = << >>
    /\ msgs = Fresh
    /\ req \in { [ route |-> r, accessToken |-> "good", emailId |-> NoId ] :
                    r \in Routes }
    /\ pc = IF req.route = "multi" THEN "claude" ELSE "gemini"
    /\ userEmail = ""
    /\ query = << >>
    /\ emails = << 1 >>
    /\ todo = << 1 >>
    /\ idx = 1
    /\ cur = [ NoCur EXCEPT !.id = 1, !.subject = SubjectOf(1) ]
    /\ results = << >>
    /\ response = NoResponse
    /\ calls = << >>
    /\ failures = 0
    /\ account0 = [ labels |-> labels, msgs |-> msgs ]
    /\ heard = << >>
    /\ ExtractorIdle
    /\ SessionIdle
    /\ PageIdle
    /\ OverlapIdle

HearClaude ==
    \E threw \in BOOLEAN, reply \in ClaudeReplies :
       /\ ClaudeStep(threw, reply)
       /\ heard' = Append(heard, Heard("anthropic", threw, reply))

HearGemini ==
    \E threw \in BOOLEAN, reply \in GeminiReplies :
       /\ GeminiStep(threw, reply)
       /\ heard' = Append(heard, Heard("gemini", threw, reply))

HearGeminiRetry ==
    \E threw \in BOOLEAN, reply \in GeminiReplies :
       /\ GeminiRetryStep(threw, reply)
       /\ heard' = Append(heard, Heard("gemini", threw, reply))

NextClassify ==
    \/ HearClaude
    \/ HearGemini
    \/ HearGeminiRetry
    \/ RetryDelay

\* Every awaited backend call settles (returns or throws) and the timer of
\* the retry delay fires.
SpecClassify == InitClassify /\ [][NextClassify]_vars /\ WF_vars(NextClassify)

----------------------------------------------------------------------------
(* extractEmailBody, applied to payload trees *)

MaxParts == 2

\* Body data is a sequence of code units, each standing for a chunk of the
\* decoded text: a word, whitespace, or markup.
Base64Table == << "Hi", " ", "<p>", "<style>", "css", "</style>" >>

\* Buffer.from(data, "base64").toString("utf-8")
Base64Decode(data) == [ i \in DOMAIN data |-> Base64Table[data[i]] ]

\* The text between <style> and </style> is skipped, a <p> breaks the line,
\* other chunks are kept.
RECURSIVE SkipMarkup(_, _)
SkipMarkup(t, skipping) ==
    IF t = << >> THEN << >>
    ELSE IF Head(t) = "<style>" THEN SkipMarkup(Tail(t), TRUE)
    ELSE IF Head(t) = "</style>" THEN SkipMarkup(Tail(t), FALSE)
    ELSE IF skipping THEN SkipMarkup(Tail(t), TRUE)
    ELSE IF Head(t) = "<p>" THEN << " " >> \o SkipMarkup(Tail(t), FALSE)
    ELSE << Head(t) >> \o SkipMarkup(Tail(t), FALSE)

\* .replace(/\s+/g, " ")
RECURSIVE CollapseSpaces(_)
CollapseSpaces(t) ==
    IF Len(t) < 2 THEN t
    ELSE IF IsSpace(t[1]) /\ IsSpace(t[2]) THEN CollapseSpaces(Tail(t))
    ELSE << Head(t) >> \o CollapseSpaces(Tail(t))

\* htmlToText(htmlContent, {...}).replace(/\s+/g, " ").trim()
HtmlToText(t) == Trim(CollapseSpaces(SkipMarkup(t, FALSE)))

\* The parts without parts of their own: text with or without body data.
PlainData == << 1, 2, 2, 1 >>
HtmlData == << 3, 1, 2, 2, 4, 5, 6, 1, 3 >>

Leaves ==
    { [ mimeType |-> "text/plain", data |-> PlainData, parts |-> << >> ],
      [ mimeType |-> "text/plain", data |-> << >>, parts |-> << >> ],
      [ mimeType |-> "text/html", data |-> HtmlData, parts |-> << >> ] }

\* The sequences of 1 .. MaxParts members of S.
PartLists(S) == UNION { [ 1 .. n -> S ] : n \in 1 .. MaxParts }

Multipart(ps) == [ mimeType |-> "multipart/mixed", data |-> << >>, parts |-> ps ]

\* multipart nodes of leaves, and payloads whose parts are leaves or such nodes
Inner == { Multipart(ps) : ps \in PartLists(Leaves) }
Payloads ==
    { NoPayload }
    \cup { << n >> : n \in Leaves }
    \cup { << Multipart(ps) >> : ps \in PartLists(Leaves \cup Inner) }

\* The first of parts that has the mime type and body data, 0 if none has.
FirstPart(parts, mimeType) ==
    LET hits == { i \in DOMAIN parts :
                    parts[i].mimeType = mimeType /\ parts[i].data # << >> }
    IN  IF hits = {} THEN 0 ELSE CHOOSE i \in hits : \A j \in hits : i <= j

extractEmailBody(p) ==
    IF p = NoPayload THEN << >>
    ELSE LET n == p[1]
             plain == FirstPart(n.parts, "text/plain")
             html == FirstPart(n.parts, "text/html")
         IN  IF plain # 0 THEN Base64Decode(n.parts[plain].data)
             ELSE IF html # 0 THEN HtmlToText(Base64Decode(n.parts[html].data))
             ELSE IF n.data # << >> /\ n.mimeType = "text/plain"
             THEN Base64Decode(n.data)
             ELSE IF n.data # << >> /\ n.mimeType = "text/html"
             THEN HtmlToText(Base64Decode(n.data))
             ELSE << >>

\* No processing request has arrived.
HandlerIdle ==
    /\ labels = << >>
    /\ msgs = Fresh
    /\ pc = "idle"
    /\ req = [ route |-> None, accessToken |-> None, emailId |-> NoId ]
    /\ userEmail = ""
    /\ query = << >>
    /\ emails = << >>
    /\ todo = << >>
    /\ idx = 0
    /\ cur = NoCur
    /\ results = << >>
    /\ response = NoResponse
    /\ calls = << >>
    /\ failures = 0
    /\ account0 = [ labels |-> labels, msgs |-> msgs ]
    /\ heard = << >>

InitExtract ==
    /\ HandlerIdle
    /\ payload \in Payloads
    /\ body = NotExtracted
    /\ SessionIdle
    /\ PageIdle
    /\ OverlapIdle

\* const body = extractEmailBody(emailDetails.data.payload as GmailPayload)
Extract ==
    /\ ~ body.done
    /\ body' = [ done |-> TRUE, text |-> extractEmailBody(payload) ]
    /\ UNCHANGED << payload, handlerVars, heard, sessionVars, pageVars, overlapVars >>

NextExtract == Extract

SpecExtract == InitExtract /\ [][NextExtract]_vars

----------------------------------------------------------------------------
(* The session endpoints: GET /api/auth, GET /api/auth/callback,           *)
(* POST /api/auth (logout), GET /api/auth/check, one browser, and the      *)
(* identity provider that issues the tokens.                               *)

MaxAuthRequests == 5

AccessMaxAge == 3600
RefreshMaxAge == 2592000

\* The code parameter of a callback: absent, one the provider exchanges,
\* one it refuses.
Codes == { None, "good", "bad" }

SetCookie(name, value, maxAge) ==
    [ name |-> name, value |-> value, maxAge |-> maxAge ]

\* NextResponse.redirect(new URL(location, request.url)), with its cookies
Redirect(location, set) ==
    [ endpoint |-> "callback", kind |-> "redirect", location |-> location,
      setCookies |-> set ]

\* NextResponse.json(body), with its cookies
Json(endpoint, content, set) ==
    [ endpoint |-> endpoint, kind |-> "json", body |-> content,
      setCookies |-> set ]

\* The browser's cookie name after a response: a cookie set with maxAge 0
\* is dropped, a cookie set otherwise is stored, any other is kept.
Stored(jar, set, name) ==
    IF \E c \in set : c.name = name
    THEN LET c == CHOOSE c \in set : c.name = name
         IN  IF c.maxAge = 0 THEN NoToken ELSE c.value
    ELSE jar[name]

Browser(jar, set) ==
    [ access_token |-> Stored(jar, set, "access_token"),
      refresh_token |-> Stored(jar, set, "refresh_token") ]

\* A request arrives: the n-th one.
Arrive(endpoint, code) ==
    /\ authPc = "idle"
    /\ authReq.n < MaxAuthRequests
    /\ authReq' = [ endpoint |-> endpoint, n |-> authReq.n + 1, code |-> code ]

\* The response is sent and the browser takes its cookies.
Reply(r) ==
    /\ authResponse' = r
    /\ cookies' = Browser(cookies, r.setCookies)
    /\ authPc' = "idle"

\* GET /api/auth
AuthStart ==
    /\ Arrive("start", None)
    /\ Reply(Json("start", [ authUrl |-> "consent" ], {}))
    /\ UNCHANGED << tokens, issued, revoked >>
    /\ UNCHANGED << handlerVars, heard, extractorVars, pageVars, overlapVars >>

\* GET /api/auth/callback, up to the await of getToken
CallbackReceive(code) ==
    /\ Arrive("callback", code)
    /\ IF code = None
       THEN Reply(Redirect("/?error=no_code", {}))
       ELSE /\ authPc' = "getToken"
            /\ UNCHANGED << authResponse, cookies >>
    /\ UNCHANGED << tokens, issued, revoked >>
    /\ UNCHANGED << handlerVars, heard, extractorVars, pageVars, overlapVars >>

\* Mutant of CallbackCookies: the refresh cookie is written unconditionally.
CallbackCookiesBoth(t) ==
    { SetCookie("access_token", t.access_token, AccessMaxAge),
      SetCookie("refresh_token", t.refresh_token, RefreshMaxAge) }

\* The cookies of the callback's success response
CallbackCookies(t) ==
    { SetCookie("access_token", t.access_token, AccessMaxAge) }
    \cup IF t.refresh_token # NoToken
         THEN { SetCookie("refresh_token", t.refresh_token, RefreshMaxAge) }
         ELSE {}

\* GET /api/auth/callback, from the await of getToken: the exchange throws
\* (always, for a code the provider refuses), or returns a new access
\* token, with or without a refresh token.
GetToken ==
    /\ authPc = "getToken"
    /\ \/ /\ Reply(Redirect("/?error=token_exchange_failed", {}))
          /\ UNCHANGED << tokens, issued >>
       \/ /\ authReq.code = "good"
          /\ \E withRefresh \in BOOLEAN :
                LET t == [ access_token |-> issued + 1,
                           refresh_token |-> IF withRefresh THEN issued + 1
                                             ELSE NoToken ]
                IN  /\ tokens' = t
                    /\ Reply(Redirect("/?success=true", CallbackCookies(t)))
          /\ issued' = issued + 1
    /\ UNCHANGED << authReq, revoked >>
    /\ UNCHANGED << handlerVars, heard, extractorVars, pageVars, overlapVars >>

\* POST /api/auth
Logout ==
    /\ Arrive("logout", None)
    /\ Reply(Json("logout", [ success |-> TRUE, message |-> "Logged out" ],
                  { SetCookie("access_token", NoToken, 0),
                    SetCookie("refresh_token", NoToken, 0) }))
    /\ UNCHANGED << tokens, issued, revoked >>
    /\ UNCHANGED << handlerVars, heard, extractorVars, pageVars, overlapVars >>

\* Mutant of Authenticated: the cookie is not looked at.
AuthenticatedAlways(accessToken) == TRUE

\* if (!accessToken) return { authenticated: false }
Authenticated(accessToken) == accessToken # NoToken

\* GET /api/auth/check
AuthCheck ==
    /\ Arrive("check", None)
    /\ LET accessToken == cookies.access_token
       IN  IF ~ Authenticated(accessToken)
           THEN Reply(Json("check", [ authenticated |-> FALSE ], {}))
           ELSE Reply(Json("check", [ authenticated |-> TRUE,
                                      accessToken |-> accessToken ], {}))
    /\ UNCHANGED << tokens, issued, revoked >>
    /\ UNCHANGED << handlerVars, heard, extractorVars, pageVars, overlapVars >>

\* The identity provider stops accepting the access token the browser
\* holds (the user withdraws the grant, or the token's lifetime ends).
Revoke ==
    /\ authPc = "idle"
    /\ cookies.access_token # NoToken
    /\ cookies.access_token \notin revoked
    /\ revoked' = revoked \cup { cookies.access_token }
    /\ UNCHANGED << cookies, authPc, authReq, authResponse, tokens, issued >>
    /\ UNCHANGED << handlerVars, heard, extractorVars, pageVars, overlapVars >>

InitSession ==
    /\ HandlerIdle
    /\ ExtractorIdle
    /\ SessionIdle
    /\ PageIdle
    /\ OverlapIdle

NextSession ==
    \/ AuthStart
    \/ \E code \in Codes : CallbackReceive(code)
    \/ GetToken
    \/ Logout
    \/ AuthCheck
    \/ Revoke

SpecSession == InitSession /\ [][NextSession]_vars

----------------------------------------------------------------------------
(* The page: its React state, the handlers of its two buttons, and the     *)
(* fetches they wait for. page.runs holds the position of every running    *)
(* handleLabelInbox call, page.logouts counts the running handleLogout     *)
(* calls, page.exits records the ways handleLabelInbox has been left.      *)

MaxClicks == 4

RECURSIVE RemoveAt(_, _)
RemoveAt(s, i) ==
    IF i = 1 THEN Tail(s) ELSE << Head(s) >> \o RemoveAt(Tail(s), i - 1)

\* useEffect: checkAuth, once after the page is loaded; isAuthenticated is
\* set when the check answers authenticated, and left alone otherwise.
CheckAuth ==
    /\ ~ page.mounted
    /\ \E authenticated \in BOOLEAN :
          page' = [ page EXCEPT !.mounted = TRUE,
                                !.isAuthenticated = authenticated ]
    /\ UNCHANGED << handlerVars, heard, extractorVars, sessionVars, overlapVars >>

\* The buttons are rendered in the authenticated branch of the page.
ButtonsRendered == page.mounted /\ page.isAuthenticated

\* Mutant of ButtonDisabled: the button is never disabled.
ButtonDisabledNever == FALSE

\* disabled={isProcessing}
ButtonDisabled == page.isProcessing

\* handleLabelInbox, up to the first await
ClickLabelInbox ==
    /\ ButtonsRendered
    /\ ~ ButtonDisabled
    /\ page.clicks < MaxClicks
    /\ page' = [ page EXCEPT !.isProcessing = TRUE,
                             !.error = None,
                             !.runs = Append(@, "check"),
                             !.clicks = @ + 1 ]
    /\ UNCHANGED << handlerVars, heard, extractorVars, sessionVars, overlapVars >>

\* finally { setIsProcessing(false) }, for the i-th running call, which ends
Finally(pg, i, exit) ==
    [ pg EXCEPT !.isProcessing = FALSE,
                !.runs = RemoveAt(@, i),
                !.exits = @ \cup { exit } ]

\* catch (error) { setError("Network error occurred") }
Caught(pg) == [ pg EXCEPT !.error = "Network error occurred" ]

NotAuthenticated ==
    "Not authenticated. Please connect your Gmail account first."

\* One await of handleLabelInbox settles: at position at, the i-th running
\* call goes on to position to, or leaves through the catch block.
Await(i, at, to, rejected) ==
    /\ i \in DOMAIN page.runs
    /\ page.runs[i] = at
    /\ page' = IF rejected THEN Finally(Caught(page), i, "exception")
               ELSE [ page EXCEPT !.runs[i] = to ]

\* await fetch("/api/auth/check")
CheckFetched(i) ==
    /\ \E rejected \in BOOLEAN : Await(i, "check", "checkJson", rejected)
    /\ UNCHANGED << handlerVars, heard, extractorVars, sessionVars, overlapVars >>

\* await authResponse.json(), the authenticated test, and the POST's fetch
CheckParsed(i) ==
    /\ \/ \E rejected \in BOOLEAN : Await(i, "checkJson", "post", rejected)
       \/ /\ i \in DOMAIN page.runs
          /\ page.runs[i] = "checkJson"
          /\ page' = Finally([ page EXCEPT !.error = NotAuthenticated ],
                             i, "notAuthenticated")
    /\ UNCHANGED << handlerVars, heard, extractorVars, sessionVars, overlapVars >>

\* await fetch("/api/gmail", ...)
PostFetched(i) ==
    /\ \E rejected \in BOOLEAN : Await(i, "post", "postJson", rejected)
    /\ UNCHANGED << handlerVars, heard, extractorVars, sessionVars, overlapVars >>

\* await response.json(), then the response.ok branches
PostParsed(i) ==
    /\ i \in DOMAIN page.runs
    /\ page.runs[i] = "postJson"
    /\ \/ page' = Finally(Caught(page), i, "exception")
       \/ \E hasResults \in BOOLEAN :
             page' = Finally(IF hasResults
                             THEN [ page EXCEPT !.success = "Successfully processed" ]
                             ELSE page,
                             i, "ok")
       \/ page' = Finally([ page EXCEPT !.error = "Failed to process emails" ],
                          i, "httpError")
    /\ UNCHANGED << handlerVars, heard, extractorVars, sessionVars, overlapVars >>

\* handleLogout, up to its await
ClickLogout ==
    /\ ButtonsRendered
    /\ page.clicks < MaxClicks
    /\ page' = [ page EXCEPT !.error = None, !.success = None,
                             !.logouts = @ + 1, !.clicks = @ + 1 ]
    /\ UNCHANGED << handlerVars, heard, extractorVars, sessionVars, overlapVars >>

\* handleLogout, from its await: response.ok, an error response, or the
\* catch block
LoggedOut ==
    /\ page.logouts > 0
    /\ \/ page' = [ page EXCEPT !.logouts = @ - 1,
                                !.isAuthenticated = FALSE,
                                !.success = "Logged out successfully" ]
       \/ page' = [ page EXCEPT !.logouts = @ - 1,
                                !.error = "Failed to log out" ]
       \/ page' = [ page EXCEPT !.logouts = @ - 1,
                                !.error = "Network error occurred during logout" ]
    /\ UNCHANGED << handlerVars, heard, extractorVars, sessionVars, overlapVars >>

InitPage ==
    /\ HandlerIdle
    /\ ExtractorIdle
    /\ SessionIdle
    /\ PageIdle
    /\ OverlapIdle

\* The steps in which a fetch or a json() promise of handleLabelInbox settles.
Settles ==
    \E i \in 1 .. MaxClicks :
       CheckFetched(i) \/ CheckParsed(i) \/ PostFetched(i) \/ PostParsed(i)

NextPage ==
    \/ CheckAuth
    \/ ClickLabelInbox
    \/ \E i \in 1 .. MaxClicks : CheckFetched(i)
    \/ \E i \in 1 .. MaxClicks : CheckParsed(i)
    \/ \E i \in 1 .. MaxClicks : PostFetched(i)
    \/ \E i \in 1 .. MaxClicks : PostParsed(i)
    \/ ClickLogout
    \/ LoggedOut

\* Every promise the handler awaits settles: the browser resolves or rejects
\* each fetch, and json() on a received response.
SpecPage == InitPage /\ [][NextPage]_vars /\ WF_vars(Settles)

----------------------------------------------------------------------------
(* Two processing requests of the two-backend route served at the same     *)
(* time on one account (two pages, or two tabs, of one user). Both have    *)
(* passed the token test and fetched the profile; each then runs POST's    *)
(* batch loop, one await at a time, on the shared labels and messages.     *)
(* The provider answers every call, and refuses to create a label whose    *)
(* name exists (its transient failures are those of Spec).                 *)

MaxOverlapMsgs == 2

Requests == { 1, 2 }

NoOutcome == [ category |-> None, model |-> None, tokens |-> 0, cost |-> 0 ]

NewReq ==
    [ pc |-> "getCustomLabelNames", query |-> << >>, todo |-> << >>,
      idx |-> 0, c |-> NoOutcome, labelId |-> 0, results |-> << >> ]

\* What classifyEmail can return, whatever the backends reply.
ClassifierOutcomes ==
    { ClaudeOutcome(reply) : reply \in { x \in ClaudeReplies : ClaudeAccepts(x) } }
    \cup { GeminiOutcome(reply) : reply \in { x \in GeminiReplies : GeminiAccepts(x) } }
    \cup { Fallback }

\* The variables of the request served alone, and what no overlapping
\* request touches.
singleVars == << pc, req, userEmail, query, emails, todo, idx, cur, results,
                 response, calls, failures, account0 >>

OverlapFrame ==
    UNCHANGED << singleVars, heard, extractorVars, sessionVars, pageVars >>

\* Request r's locals become rec.
Locals(r, rec) == reqs' = [ reqs EXCEPT ![r] = rec ]

\* results.push(record), and the next turn of the for loop or the answer
Recorded(r, record) ==
    LET q == reqs[r]
    IN  IF q.idx < Len(q.todo)
        THEN [ q EXCEPT !.results = Pushed(@, record), !.idx = @ + 1,
                        !.c = NoOutcome, !.labelId = 0, !.pc = "get" ]
        ELSE [ q EXCEPT !.results = Pushed(@, record), !.pc = "done" ]

\* getCustomLabelNames
OverlapLabelNames(r) ==
    /\ reqs[r].pc = "getCustomLabelNames"
    /\ Locals(r, [ reqs[r] EXCEPT !.query = MatchingLabelNames, !.pc = "list" ])
    /\ UNCHANGED << labels, msgs >>
    /\ OverlapFrame

\* gmail.users.messages.list
OverlapList(r) ==
    /\ reqs[r].pc = "list"
    /\ LET listed == Listing(reqs[r].query, MAX_EMAILS)
       IN  Locals(r, IF listed = << >>
                     THEN [ reqs[r] EXCEPT !.pc = "done" ]
                     ELSE [ reqs[r] EXCEPT !.todo = listed, !.idx = 1,
                                           !.pc = "get" ])
    /\ UNCHANGED << labels, msgs >>
    /\ OverlapFrame

\* processSingleEmail: gmail.users.messages.get
OverlapGet(r) ==
    /\ reqs[r].pc = "get"
    /\ Locals(r, [ reqs[r] EXCEPT !.pc = "classify" ])
    /\ UNCHANGED << labels, msgs >>
    /\ OverlapFrame

\* processSingleEmail: classifyEmail
OverlapClassify(r) ==
    /\ reqs[r].pc = "classify"
    /\ \E outcome \in ClassifierOutcomes :
          Locals(r, [ reqs[r] EXCEPT !.c = outcome, !.pc = "ensureList" ])
    /\ UNCHANGED << labels, msgs >>
    /\ OverlapFrame

\* ensureLabelExists: labels.list and the lookup by name
OverlapEnsureList(r) ==
    /\ reqs[r].pc = "ensureList"
    /\ LET found == FindLabel(reqs[r].c.category)
       IN  Locals(r, IF found # 0
                     THEN [ reqs[r] EXCEPT !.labelId = found, !.pc = "modify" ]
                     ELSE [ reqs[r] EXCEPT !.pc = "create" ])
    /\ UNCHANGED << labels, msgs >>
    /\ OverlapFrame

\* ensureLabelExists: labels.create, which the provider refuses when a label
\* of that name has been created since the listing
OverlapCreate(r) ==
    /\ reqs[r].pc = "create"
    /\ LET q == reqs[r]
           id == q.todo[q.idx]
       IN  IF FindLabel(q.c.category) # 0
           THEN /\ Locals(r, Recorded(r, ErrorResult(id, ErrMsg("labels.create"))))
                /\ UNCHANGED labels
           ELSE /\ labels' = Append(labels, q.c.category)
                /\ Locals(r, [ q EXCEPT !.labelId = Len(labels) + 1,
                                        !.pc = "modify" ])
    /\ UNCHANGED msgs
    /\ OverlapFrame

\* gmail.users.messages.modify, then the success record
OverlapModify(r) ==
    /\ reqs[r].pc = "modify"
    /\ LET q == reqs[r]
           id == q.todo[q.idx]
       IN  /\ msgs' = [ msgs EXCEPT ![id] = Modified(msgs[id], q.labelId) ]
           /\ Locals(r, Recorded(r, SuccessResult("multi",
                  [ id |-> id, subject |-> SubjectOf(id),
                    category |-> q.c.category, model |-> q.c.model,
                    tokens |-> q.c.tokens, cost |-> q.c.cost ])))
    /\ UNCHANGED labels
    /\ OverlapFrame

InitOverlap ==
    /\ labels \in { << >>, << "Travel", "Work" >> }
    /\ msgs = [ m \in 1 .. MaxOverlapMsgs |-> [ unread |-> TRUE, labelIds |-> {} ] ]
    /\ pc = "idle"
    /\ req = [ route |-> None, accessToken |-> None, emailId |-> NoId ]
    /\ userEmail = ""
    /\ query = << >>
    /\ emails = << >>
    /\ todo = << >>
    /\ idx = 0
    /\ cur = NoCur
    /\ results = << >>
    /\ response = NoResponse
    /\ calls = << >>
    /\ failures = 0
    /\ account0 = [ labels |-> labels, msgs |-> msgs ]
    /\ heard = << >>
    /\ ExtractorIdle
    /\ SessionIdle
    /\ PageIdle
    /\ reqs = [ r \in Requests |-> NewReq ]

NextOverlap ==
    \E r \in Requests :
       \/ OverlapLabelNames(r)
       \/ OverlapList(r)
       \/ OverlapGet(r)
       \/ OverlapClassify(r)
       \/ OverlapEnsureList(r)
       \/ OverlapCreate(r)
       \/ OverlapModify(r)

SpecOverlap == InitOverlap /\ [][NextOverlap]_vars

----------------------------------------------------------------------------
(* A processing request on an inbox of unread messages that bear no label, *)
(* in an account with or without the "Work" label: every listed message    *)
(* goes through the whole pipeline.                                        *)

InitFresh ==
    /\ Init
    /\ msgs = Fresh

SpecFresh == InitFresh /\ [][Next]_vars

----------------------------------------------------------------------------
(* Vocabulary of the properties *)

\* The await a per-message step is suspended on, and the call made there.
PerMessagePcs == { "get", "ensureList", "create", "modify" }

StepKind(p) ==
    CASE p = "get" -> "messages.get"
      [] p = "ensureList" -> "labels.list"
      [] p = "create" -> "labels.create"
      [] p = "modify" -> "messages.modify"

FailedRecord(id, text) ==
    [ id |-> id, subject |-> "Error processing email", category |-> "Error",
      labeled |-> FALSE, error |-> text ]

Batch == req.emailId = NoId
Answered == pc = "done"

\* The category labels message m bore when the request arrived.
CategoryLabels0(m) ==
    { account0.labels[i] : i \in account0.msgs[m].labelIds } \cap Categories

\* The calls of kind k made for message m.
CallsFor(k, m) == { i \in DOMAIN calls : calls[i].kind = k /\ calls[i].id = m }

\* The position of message m in todo (0 when it is not there).
Pos(m) == IF \E i \in DOMAIN todo : todo[i] = m
          THEN CHOOSE i \in DOMAIN todo : todo[i] = m
          ELSE 0

HasUsage(r) == "tokens" \in DOMAIN r \/ "cost" \in DOMAIN r

----------------------------------------------------------------------------
(* C1. Batch isolation: when a step of a message's pipeline throws         *)
(* (messages.get, labels.list, labels.create, messages.modify; the         *)
(* classifier never throws), the message's result is the failed record     *)
(* carrying the error's text, the loop goes on with the next listed        *)
(* message, and the endpoint answers 200 with one record per message.      *)
C1_BatchIsolation ==
    /\ [][ (pc \in PerMessagePcs /\ failures' = failures + 1) =>
             /\ results' = Append(results, FailedRecord(cur.id, ErrMsg(StepKind(pc))))
             /\ IF idx < Len(todo)
                THEN pc' = "get" /\ cur'.id = todo[idx + 1] /\ idx' = idx + 1
                     /\ response' = NoResponse
                ELSE pc' = "done" /\ response'.status = 200
                     /\ response'.results = results' ]_vars
    /\ [] ( (Answered /\ \E k \in DOMAIN results : ~ results[k].labeled) =>
              /\ response.status = 200
              /\ response.results = results
              /\ Len(results) = Len(todo) )

\* Message 2 of 3 failed at label creation; 1 and 3 were labeled.
C1_Witness ==
    /\ Answered /\ Batch /\ response.status = 200
    /\ Len(response.results) = 3
    /\ results[1].labeled
    /\ ~ results[2].labeled /\ results[2].error = ErrMsg("labels.create")
    /\ results[3].labeled

(* C2. A batch call that answers 200 returns exactly one record per listed *)
(* id, in listing order; the calls made for the messages follow that       *)
(* order too, one message at a time.                                       *)
C2_OrderedResults ==
    /\ \A k \in DOMAIN results : k <= Len(todo) /\ results[k].id = todo[k]
    /\ pc \in PerMessagePcs \cup { "claude", "gemini", "delay" } =>
          Len(results) = idx - 1 /\ cur.id = todo[idx]
    /\ (Answered /\ Batch /\ response.status = 200) =>
          /\ response.results = results
          /\ Len(results) = Len(emails)
          /\ \A k \in DOMAIN emails : results[k].id = emails[k]
    /\ \A a \in DOMAIN calls :
          calls[a].id # 0 =>
             /\ Pos(calls[a].id) # 0
             /\ a < Len(calls) =>
                   /\ calls[a + 1].id # 0
                   /\ Pos(calls[a].id) <= Pos(calls[a + 1].id)

\* A batch of three answered with a mix of successes and failures.
C2_Witness ==
    /\ Answered /\ Batch /\ response.status = 200
    /\ Len(emails) = 3
    /\ ~ results[1].labeled /\ results[2].labeled /\ ~ results[3].labeled

(* C3. Every record's category is a member of the Category set or the      *)
(* literal "Error".                                                        *)
C3_CategoryClosed ==
    /\ \A k \in DOMAIN results : results[k].category \in Categories \cup { "Error" }
    /\ response.status = 200 =>
          \A k \in DOMAIN response.results :
             response.results[k].category \in Categories \cup { "Error" }

\* An answer holding an "Error" record, a fallback category and a category
\* a backend replied.
C3_Witness ==
    /\ Answered /\ response.status = 200
    /\ \E i, j, k \in DOMAIN response.results :
          /\ response.results[i].category = "Error"
          /\ response.results[j].category \in { "Other", "Personal" }
          /\ response.results[k].category = "Finance"

(* C4. A record has labeled = false if and only if it carries an error     *)
(* field.                                                                  *)
C4_ErrorIffNotLabeled ==
    \A k \in DOMAIN results :
       (results[k].labeled = FALSE) <=> ("error" \in DOMAIN results[k])

C4_Witness ==
    /\ Answered /\ response.status = 200
    /\ \E i, j \in DOMAIN response.results :
          /\ response.results[i].labeled /\ "error" \notin DOMAIN response.results[i]
          /\ ~ response.results[j].labeled /\ "error" \in DOMAIN response.results[j]

(* C5, as claimed: token and cost fields are present only on successful    *)
(* records whose category a paid backend produced; they are absent on      *)
(* failed records and on records tagged "fallback".                        *)
C5_UsageOnlyForPaidBackend ==
    \A k \in DOMAIN results :
       HasUsage(results[k]) =>
          /\ results[k].labeled
          /\ results[k].model \in { "gemini", "anthropic" }

(* C5, amended: token and cost fields are present only on successful       *)
(* records (and on every successful record of the two-backend route); they *)
(* are absent on failed records, and on a record tagged "fallback" they    *)
(* are present with the value 0.                                           *)
C5_UsageOnlyOnSuccess ==
    \A k \in DOMAIN results :
       LET r == results[k]
       IN  /\ HasUsage(r) => r.labeled
           /\ ~ r.labeled => "tokens" \notin DOMAIN r /\ "cost" \notin DOMAIN r
           /\ ("tokens" \in DOMAIN r) <=> ("cost" \in DOMAIN r)
           /\ ("model" \in DOMAIN r) <=> ("tokens" \in DOMAIN r)
           /\ (r.labeled /\ req.route = "multi") => HasUsage(r)
           /\ (HasUsage(r) /\ r.model = "fallback") => r.tokens = 0 /\ r.cost = 0

\* A fallback record carrying tokens = 0 and cost = 0 beside a failed one.
C5_Witness ==
    /\ Answered /\ response.status = 200
    /\ \E i, j \in DOMAIN results :
          /\ results[i].labeled /\ "tokens" \in DOMAIN results[i]
          /\ results[i].model = "fallback"
          /\ results[i].tokens = 0 /\ results[i].cost = 0
          /\ ~ results[j].labeled

C7_ListsMinOfTen ==
    (Answered /\ Batch /\ response.status = 200) =>
       LET n == Cardinality({ m \in DOMAIN msgs :
                    /\ account0.msgs[m].unread
                    /\ CategoryLabels0(m) \cap Range(query) = {} })
       IN  /\ Len(emails) = Min(n, 10)
           /\ Len(response.results) = Min(n, 10)

(* C8, as claimed: on the route that builds the label exclusion, a message *)
(* that bears a label named after a Category is never listed, classified   *)
(* or modified, also when the label-name lookup that builds the exclusion  *)
(* fails.                                                                  *)
C8_NoReclassification ==
    \A m \in DOMAIN msgs :
       (req.route = "multi" /\ CategoryLabels0(m) # {}) =>
          /\ m \notin Range(emails)
          /\ \A i \in DOMAIN calls : calls[i].id # m
          /\ msgs[m] = account0.msgs[m]

(* C9, as claimed: a request naming an emailId whose listing call returned *)
(* is answered with a one-element result list if and only if that message  *)
(* is unread and bears no category label, however many such messages the   *)
(* account has; otherwise with 404, and no call is made for any message.   *)
C9_SingleEntry ==
    (Answered /\ ~ Batch /\ req.accessToken = "good" /\ response.status # 500) =>
       IF account0.msgs[req.emailId].unread /\ CategoryLabels0(req.emailId) = {}
       THEN /\ response.status = 200
            /\ Len(response.results) = 1
            /\ response.results[1].id = req.emailId
       ELSE /\ response.status = 404
            /\ \A i \in DOMAIN calls : calls[i].id = 0

(* C10. A request without an access token is answered 400 and has no       *)
(* effect: no outbound call is made and no message or label changes.       *)
C10_NoTokenNoEffect ==
    (pc # "idle" /\ req.accessToken = None) =>
       /\ Answered
       /\ response = [ status |-> 400, error |-> "Access token required" ]
       /\ calls = << >>
       /\ results = << >>
       /\ labels = account0.labels
       /\ msgs = account0.msgs

C10_Witness ==
    /\ Answered
    /\ req.accessToken = None
    /\ response.status = 400
    /\ \E m \in DOMAIN msgs : msgs[m].unread

(* C11, as claimed: a processing request whose access token the mail       *)
(* provider rejects is answered with a 400/401-class status, not with a    *)
(* 500-class status or a success.                                          *)
C11_InvalidTokenIs4xx ==
    (Answered /\ req.accessToken = "bad") => response.status \in 400 .. 499

\* The last call made was the listing call, and it threw.
ListingFailed ==
    /\ calls # << >>
    /\ calls[Len(calls)].kind = "messages.list"
    /\ calls[Len(calls)].outcome = "threw"

(* C12. When the message-listing call throws, the endpoint answers 500     *)
(* with the generic message "Failed to process emails" and no result list, *)
(* and no message has been fetched, classified or modified; the endpoint   *)
(* answers 500 in no other case (no other exception escapes the            *)
(* per-message boundary).                                                  *)
C12_BatchFailure ==
    /\ ListingFailed =>
          /\ Answered
          /\ response.status = 500
          /\ response.error = "Failed to process emails"
          /\ DOMAIN response = { "status", "error" }
          /\ results = << >>
          /\ \A i \in DOMAIN calls : calls[i].id = 0
          /\ msgs = account0.msgs
          /\ labels = account0.labels
    /\ response.status = 500 => ListingFailed

\* The listing call failed for an accepted token, after the profile and the
\* label names were read, on an account with unread messages.
C12_Witness ==
    /\ ListingFailed
    /\ response.status = 500
    /\ req.accessToken = "good"
    /\ \A i \in 1 .. Len(calls) - 1 : calls[i].outcome = "ok"
    /\ Len(calls) = 3
    /\ \E m \in DOMAIN msgs : msgs[m].unread

\* classifyEmail has returned to its caller.
ClassifyReturned == pc = "ensureList"

\* The tier that gave answer h did not yield a member of the Category set:
\* the call threw, or the validation of its reply failed.
TierFailed(h) ==
    \/ h.threw
    \/ h.backend = "anthropic" /\ ~ ClaudeAccepts(h.reply)
    \/ h.backend = "gemini" /\ ~ GeminiAccepts(h.reply)

(* C13, as claimed: whenever no tier's reply is a member of the Category   *)
(* set (empty, arbitrary text, or a transport failure), classifyEmail      *)
(* returns the static default category with backend tag "fallback", token  *)
(* count 0 and cost 0.                                                     *)
C13_FallbackTagged ==
    (ClassifyReturned /\ \A i \in DOMAIN heard : TierFailed(heard[i])) =>
       /\ cur.category = IF req.route = "multi" THEN Fallback.category
                         ELSE SingleFallback
       /\ cur.model = "fallback"
       /\ cur.tokens = 0
       /\ cur.cost = 0

\* Answer h is a reply equal to a Category string: the secondary backend's
\* text (bare, or as the category field of the object asked for), the
\* primary backend's text.
CategoryReply(h) ==
    /\ ~ h.threw
    /\ \/ h.backend = "anthropic" /\ h.reply.text.category \in Categories
       \/ h.backend = "gemini" /\ h.reply.hasText /\ IncludesText(h.reply.text)

ReplyCategory(h) ==
    IF h.backend = "anthropic" THEN h.reply.text.category ELSE h.reply.text[1]

(* C14, as claimed: in the two-backend classifier, for every tier that is  *)
(* reached, if that backend's reply is equal to a valid Category string,   *)
(* classifyEmail returns exactly that category, tagged with the backend    *)
(* that produced it.                                                       *)
C14_AcceptsCategoryReply ==
    (ClassifyReturned /\ req.route = "multi") =>
       \A i \in DOMAIN heard :
          CategoryReply(heard[i]) =>
             /\ cur.category = ReplyCategory(heard[i])
             /\ cur.model = heard[i].backend

\* The calls classifyEmail has made to a backend.
Backends == { "anthropic", "gemini" }
BackendCalls == { i \in DOMAIN calls : calls[i].kind \in Backends }

\* One call per backend, or the first attempt and maxRetries more.
MostBackendCalls ==
    IF req.route = "multi" THEN Cardinality(Backends) ELSE maxRetries + 1

(* C15. Classifier totality: whatever the backends do (throw, reply        *)
(* nothing, reply text that cannot be parsed or is not a Category, reply a *)
(* Category), classifyEmail returns after at most 2 backend calls (two     *)
(* backends) or 3 (one backend, retried), it never throws to its caller,   *)
(* and the category it returns is a member of the Category set.            *)
C15_ClassifyTotal ==
    /\ [] /\ Cardinality(BackendCalls) <= MostBackendCalls
          /\ Len(heard) = Cardinality(BackendCalls)
          /\ pc \in { "claude", "gemini", "delay", "ensureList" }
          /\ results = << >>
          /\ ClassifyReturned => cur.category \in Categories
    /\ <> ClassifyReturned

\* classifyEmail returned a category after every kind of backend outcome:
\* a thrown call, an absent text, an empty one, an out-of-set one.
C15_Witness ==
    /\ ClassifyReturned
    /\ cur.category \in Categories
    /\ Len(heard) = maxRetries + 1
    /\ heard[1].threw
    /\ ~ heard[2].threw /\ ~ heard[2].reply.hasText
    /\ ~ heard[3].threw /\ heard[3].reply.text = << "Travel" >>

\* The labels.create calls that returned.
Creates == { i \in DOMAIN calls :
               calls[i].kind = "labels.create" /\ calls[i].outcome = "ok" }

(* C16. ensureLabelExists is idempotent over the sequential calls of a     *)
(* request: the account never holds two labels with the same name and the  *)
(* labels it had keep their identifiers; create is called only for a name  *)
(* the account does not have, so every create adds one new name; the       *)
(* identifier returned is the one the account holds for the name, so two   *)
(* calls with the same name return the same identifier.                    *)
C16_EnsureLabelIdempotent ==
    /\ \A i, j \in DOMAIN labels : labels[i] = labels[j] => i = j
    /\ Len(labels) >= Len(account0.labels)
    /\ SubSeq(labels, 1, Len(account0.labels)) = account0.labels
    /\ Cardinality(Creates) = Len(labels) - Len(account0.labels)
    /\ pc = "create" => FindLabel(cur.category) = 0
    /\ pc = "modify" =>
          /\ cur.labelId \in DOMAIN labels
          /\ labels[cur.labelId] = cur.category
          /\ cur.labelId = FindLabel(cur.category)
    /\ \A k \in DOMAIN results :
          results[k].labeled =>
             FindLabel(results[k].category) \in msgs[results[k].id].labelIds

\* Three messages of one category on an account without that label: the
\* first call creates it, the next two find it, and all three messages bear
\* the one label.
C16_Witness ==
    /\ Answered /\ Batch /\ response.status = 200
    /\ Len(results) = 3
    /\ \A k \in DOMAIN results : results[k].labeled /\ results[k].category = "Work"
    /\ account0.labels = << >>
    /\ Cardinality(Creates) = 1
    /\ Cardinality({ i \in DOMAIN calls : calls[i].kind = "labels.list" /\ calls[i].id # 0 }) = 3
    /\ labels = << "Work" >>
    /\ \A m \in DOMAIN msgs : msgs[m].labelIds = { 1 }

\* The awaits of ensureLabelExists, and the texts of the errors they throw.
LabelPcs == { "ensureList", "create" }
LabelErrors == { ErrMsg(StepKind(p)) : p \in LabelPcs }

(* C17. Label-step failure: when labels.list or labels.create throws for a *)
(* message, ensureLabelExists rethrows; the message's result is the failed *)
(* record carrying that error's text, no modify call is made for it (it    *)
(* keeps its unread marker and its labels), no label is created by the     *)
(* failing step, and the remaining messages of the batch are processed.    *)
C17_LabelFailure ==
    /\ [][ (pc \in LabelPcs /\ failures' = failures + 1) =>
             /\ results' = Append(results, FailedRecord(cur.id, ErrMsg(StepKind(pc))))
             /\ msgs' = msgs
             /\ labels' = labels
             /\ IF idx < Len(todo)
                THEN pc' = "get" /\ cur'.id = todo[idx + 1]
                ELSE pc' = "done" /\ response'.status = 200 ]_vars
    /\ [] \A k \in DOMAIN results :
            ("error" \in DOMAIN results[k] /\ results[k].error \in LabelErrors) =>
               /\ ~ results[k].labeled
               /\ CallsFor("messages.modify", results[k].id) = {}
               /\ msgs[results[k].id] = account0.msgs[results[k].id]
               /\ Answered =>
                     /\ response.status = 200
                     /\ Len(results) = Len(todo)
                     /\ \A j \in DOMAIN todo :
                           j > k => CallsFor("messages.get", todo[j]) # {}

\* Listing labels failed for message 1 and creating the label failed for
\* message 2: both are still unread and unlabeled, and message 3 was labeled.
C17_Witness ==
    /\ Answered /\ Batch /\ response.status = 200
    /\ Len(results) = 3
    /\ ~ results[1].labeled /\ results[1].error = ErrMsg("labels.list")
    /\ ~ results[2].labeled /\ results[2].error = ErrMsg("labels.create")
    /\ results[3].labeled
    /\ \A k \in 1 .. 2 : msgs[results[k].id] = [ unread |-> TRUE, labelIds |-> {} ]
    /\ ~ msgs[results[3].id].unread

\* The nodes of the tree under n, n first, parts in order.
RECURSIVE Concat(_)
Concat(ss) == IF ss = << >> THEN << >> ELSE Head(ss) \o Concat(Tail(ss))

RECURSIVE Nodes(_)
Nodes(n) == << n >> \o Concat([ i \in DOMAIN n.parts |-> Nodes(n.parts[i]) ])

\* The text/plain parts of the tree that have body data, in order.
PlainParts(n) ==
    SelectSeq(Nodes(n), LAMBDA x : x.mimeType = "text/plain" /\ x.data # << >>)

(* C18, as claimed: for every payload tree that contains a text/plain part *)
(* with body data, at any position among its siblings and at any nesting   *)
(* depth, extractEmailBody returns the decoded content of the first such   *)
(* part, unmodified, whatever text/html parts the tree holds.              *)
C18_PrefersPlainText ==
    (body.done /\ payload # NoPayload /\ PlainParts(payload[1]) # << >>) =>
       body.text = Base64Decode(PlainParts(payload[1])[1].data)

\* A step that serves a request to the endpoint; the step in which the
\* callback's code exchange succeeds.
Served(endpoint) == authReq'.endpoint = endpoint /\ authReq'.n = authReq.n + 1
Exchanged == authPc = "getToken" /\ issued' = issued + 1

\* The browser holds an access-token cookie the identity provider accepts.
ValidCookie == cookies.access_token # NoToken /\ cookies.access_token \notin revoked

C20_CallbackCookies ==
    [][ /\ (Served("callback") /\ authReq'.code = None) =>
              /\ authResponse' = Redirect("/?error=no_code", {})
              /\ cookies' = cookies
              /\ authPc' = "idle"
        /\ (Served("callback") /\ authReq'.code # None) =>
              /\ authPc' = "getToken"
              /\ cookies' = cookies
              /\ authResponse' = authResponse
        /\ (authPc = "getToken" /\ issued' = issued) =>
              /\ authResponse' = Redirect("/?error=token_exchange_failed", {})
              /\ cookies' = cookies
        /\ (authPc = "getToken" /\ authReq.code = "bad") => issued' = issued
        /\ Exchanged =>
              /\ authResponse'.location = "/?success=true"
              /\ tokens'.access_token = issued'
              /\ cookies'.access_token = tokens'.access_token
              /\ cookies'.refresh_token =
                    IF tokens'.refresh_token # NoToken
                    THEN tokens'.refresh_token ELSE cookies.refresh_token
              /\ (\E c \in authResponse'.setCookies : c.name = "refresh_token")
                    <=> tokens'.refresh_token # NoToken
        /\ (authReq'.endpoint = "callback" /\ cookies' # cookies) => Exchanged
      ]_vars

\* A second login whose exchange returned no refresh token: the access
\* cookie is the new token, the refresh cookie is still the first login's.
C20_Witness ==
    /\ authResponse.endpoint = "callback"
    /\ authResponse.location = "/?success=true"
    /\ issued = 2
    /\ tokens = [ access_token |-> 2, refresh_token |-> NoToken ]
    /\ cookies = [ access_token |-> 2, refresh_token |-> 1 ]

----------------------------------------------------------------------------
\* The secondary backend's answer h is a failure of one of the three kinds:
\* the call threw, the reply is not the JSON asked for, or the category it
\* carries is absent or not a member of the Category set.
SecondaryFailed(h) ==
    /\ h.backend = "anthropic"
    /\ \/ h.threw
       \/ h.reply.text.kind = "plain"
       \/ h.reply.text.category \notin Categories

\* The calls made to one backend.
CallsTo(backend) == { i \in DOMAIN calls : calls[i].kind = backend }

\* The ClassificationResult classifyEmail handed to its caller.
Outcome ==
    [ category |-> cur.category, model |-> cur.model, tokens |-> cur.tokens,
      cost |-> cur.cost ]

\* What the primary backend's answer h alone makes of the classification.
PrimaryDecides(h) ==
    IF ~ h.threw /\ h.reply.hasText /\ IncludesText(Trim(h.reply.text))
    THEN [ category |-> Trim(h.reply.text)[1], model |-> "gemini",
           tokens |-> h.reply.count, cost |-> GeminiCost(h.reply.count) ]
    ELSE [ category |-> "Other", model |-> "fallback", tokens |-> 0, cost |-> 0 ]

(* C21. Secondary-tier failures are swallowed: when the secondary backend  *)
(* call throws, its reply cannot be parsed, or the parsed category is not  *)
(* in the Category set, classifyEmail does not raise; it goes on to the    *)
(* primary backend, calls it exactly once, and returns what the primary    *)
(* reply alone decides (the primary-model result or the fallback).         *)
C21_SecondaryFailureSwallowed ==
    /\ [] ((req.route = "multi" /\ heard # << >> /\ SecondaryFailed(heard[1])) =>
             /\ pc \in { "gemini", "ensureList" }
             /\ results = << >>
             /\ response = NoResponse
             /\ Cardinality(CallsTo("anthropic")) = 1
             /\ pc = "gemini" => CallsTo("gemini") = {}
             /\ ClassifyReturned =>
                  /\ Cardinality(CallsTo("gemini")) = 1
                  /\ Len(heard) = 2
                  /\ heard[2].backend = "gemini"
                  /\ Outcome = PrimaryDecides(heard[2]))
    /\ (req.route = "multi" /\ heard # << >> /\ SecondaryFailed(heard[1]))
          ~> (ClassifyReturned /\ Cardinality(CallsTo("gemini")) = 1)

\* The secondary backend replied an object whose category is not a member of
\* the set, and the primary backend's reply then decided the outcome.
C21_Witness ==
    /\ ClassifyReturned
    /\ req.route = "multi"
    /\ Len(heard) = 2
    /\ ~ heard[1].threw
    /\ heard[1].reply.text = [ kind |-> "object", category |-> "Travel" ]
    /\ ~ heard[2].threw
    /\ cur.category = "Finance"
    /\ cur.model = "gemini"

----------------------------------------------------------------------------
\* The secondary backend's answer h yields a valid category: a parsed reply
\* whose category field is a member of the Category set.
SecondaryValid(h) ==
    /\ h.backend = "anthropic"
    /\ ~ h.threw
    /\ h.reply.text.kind = "object"
    /\ h.reply.text.category \in Categories

(* C22. Tier ordering: in the two-backend classifier the secondary backend *)
(* is always invoked, first and exactly once; the primary backend is       *)
(* invoked only after the secondary failed to yield a valid category, and  *)
(* never once the secondary returned a valid category.                     *)
C22_TierOrdering ==
    /\ [] (req.route = "multi" =>
             /\ Cardinality(CallsTo("anthropic")) <= 1
             /\ Cardinality(CallsTo("gemini")) <= 1
             /\ \A i \in BackendCalls : calls[i].kind = "gemini" =>
                   /\ \E j \in 1 .. i - 1 : calls[j].kind = "anthropic"
                   /\ ~ SecondaryValid(heard[1])
             /\ heard # << >> =>
                   /\ heard[1].backend = "anthropic"
                   /\ SecondaryValid(heard[1]) =>
                         /\ CallsTo("gemini") = {}
                         /\ ClassifyReturned
                         /\ cur.model = "anthropic"
             /\ ClassifyReturned => Cardinality(CallsTo("anthropic")) = 1)
    /\ (req.route = "multi") ~> (Cardinality(CallsTo("anthropic")) = 1)

\* The secondary backend returned a valid category and classifyEmail
\* returned it without a call to the primary backend.
C22_Witness ==
    /\ req.route = "multi"
    /\ ClassifyReturned
    /\ Len(heard) = 1
    /\ SecondaryValid(heard[1])
    /\ cur.category = "Work"
    /\ calls = << [ kind |-> "anthropic", id |-> 1, outcome |-> "done" ] >>

----------------------------------------------------------------------------
\* The primary backend's answer h is a valid reply: text that, trimmed, is a
\* member of the Category set.
PrimaryValid(h) ==
    /\ h.backend = "gemini"
    /\ ~ h.threw
    /\ h.reply.hasText
    /\ IncludesText(Trim(h.reply.text))

\* The attempts the single-backend classifier may make: the first one and
\* maxRetries more.
MaxAttempts == maxRetries + 1

(* C23. Bounded retry, single-backend classifier: whatever the order of    *)
(* invalid or empty replies and transport failures, the primary backend is *)
(* invoked at most 3 times per message (one attempt and at most 2          *)
(* retries); no call follows the first valid reply; and the static default *)
(* is returned exactly when all 3 attempts failed.                         *)
C23_BoundedRetry ==
    req.route = "single" =>
       /\ Cardinality(CallsTo("gemini")) <= MaxAttempts
       /\ MaxAttempts = 3
       /\ Len(heard) = Cardinality(CallsTo("gemini"))
       /\ \A i \in 1 .. Len(heard) - 1 : ~ PrimaryValid(heard[i])
       /\ (heard # << >> /\ PrimaryValid(heard[Len(heard)])) =>
             /\ ClassifyReturned
             /\ cur.category = Trim(heard[Len(heard)].reply.text)[1]
       /\ ClassifyReturned =>
             /\ heard # << >>
             /\ (Len(heard) = MaxAttempts /\ ~ PrimaryValid(heard[MaxAttempts]))
                   <=> ~ PrimaryValid(heard[Len(heard)])
             /\ ~ PrimaryValid(heard[Len(heard)]) => cur.category = SingleFallback
       /\ (Len(heard) = MaxAttempts /\ ~ PrimaryValid(heard[MaxAttempts])) =>
             /\ ClassifyReturned
             /\ cur.category = SingleFallback

\* A transport failure, an invalid reply, and a valid reply on the third
\* attempt, which is returned.
C23_Witness ==
    /\ req.route = "single"
    /\ ClassifyReturned
    /\ Len(heard) = 3
    /\ heard[1].threw
    /\ ~ heard[2].threw /\ ~ PrimaryValid(heard[2])
    /\ PrimaryValid(heard[3])
    /\ cur.category = "Finance"
    /\ Cardinality(CallsTo("gemini")) = 3

----------------------------------------------------------------------------
\* Attempts i and j on the primary backend are consecutive.
Consecutive(i, j) ==
    /\ i \in CallsTo("gemini")
    /\ j \in CallsTo("gemini")
    /\ i < j
    /\ \A k \in i + 1 .. j - 1 : calls[k].kind # "gemini"

\* The delays waited between calls i and j.
DelaysBetween(i, j) == { k \in i + 1 .. j - 1 : calls[k].kind = "delay" }

(* C24, as claimed: in the single-backend classifier there is one fixed    *)
(* delay between every two consecutive attempts on the primary backend,    *)
(* after a transport error and after an invalid or empty reply alike, and  *)
(* no delay follows the last attempt.                                      *)
C24_DelayBetweenAttempts ==
    req.route = "single" =>
       /\ \A i, j \in DOMAIN calls :
             Consecutive(i, j) => Cardinality(DelaysBetween(i, j)) = 1
       /\ ClassifyReturned => calls[Len(calls)].kind = "gemini"

----------------------------------------------------------------------------
\* The mail-provider calls of one message's pipeline.
PipelineKinds ==
    { "messages.get", "labels.list", "labels.create", "messages.modify" }

(* C25. No other retries: while one message is processed, each             *)
(* mail-provider call (get message, list labels inside ensureLabelExists,  *)
(* create label, modify message) is issued at most once, and in the        *)
(* two-backend classifier each backend is called at most once; when one of *)
(* the provider calls fails, nothing more is tried for the message and the *)
(* failure is reported in the message's result.                            *)
C25_NoOtherRetries ==
    \A m \in MsgIds :
       /\ \A k \in PipelineKinds : Cardinality(CallsFor(k, m)) <= 1
       /\ req.route = "multi" =>
             \A b \in Backends : Cardinality(CallsFor(b, m)) <= 1
       /\ \A i \in DOMAIN calls :
             (calls[i].id = m /\ calls[i].outcome = "threw") =>
                /\ \A j \in i + 1 .. Len(calls) : calls[j].id # m
                /\ Pos(m) \in DOMAIN results
                /\ results[Pos(m)] = FailedRecord(m, ErrMsg(calls[i].kind))

\* The two-backend route called each backend and each provider step once
\* for message 1; the modify call threw and the request went on to answer
\* with the failure in message 1's record.
C25_Witness ==
    /\ Answered /\ response.status = 200
    /\ req.route = "multi"
    /\ \A k \in PipelineKinds \cup Backends : Cardinality(CallsFor(k, 1)) = 1
    /\ \E i \in CallsFor("messages.modify", 1) : calls[i].outcome = "threw"
    /\ results[1] = FailedRecord(1, ErrMsg("messages.modify"))
    /\ Len(results) > 1

----------------------------------------------------------------------------
\* The rate the page advertises for the primary backend: $1.25, in units of
\* 10^-7 USD, per RatePer tokens.
AdvertisedGeminiRate == 12500000
RatePer == 1000000

\* tokens * 1.25 / 1,000,000 USD in units of 10^-7 USD (12.5 units a token;
\* the token counts the backends report here are even, so the division is
\* exact).
AdvertisedCost(n) == (n * AdvertisedGeminiRate) \div RatePer

(* C26, as claimed: for a primary-model classification the token count is  *)
(* the total-token count the backend reported (0 when it reported none)    *)
(* and the recorded cost is that count times the flat rate advertised to   *)
(* the user, $1.25 per 1,000,000 tokens: cost = tokens * 1.25 / 1,000,000. *)
C26_PrimaryCost ==
    (ClassifyReturned /\ req.route = "multi" /\ cur.model = "gemini") =>
       /\ cur.tokens = heard[Len(heard)].reply.count
       /\ cur.cost = AdvertisedCost(cur.tokens)

----------------------------------------------------------------------------
(* C29, as claimed: the bearer access token is held only in the HTTP-only  *)
(* cookie; no endpoint (authorization start, callback, auth status,        *)
(* logout) places the access-token value in a response body that page      *)
(* script can read.                                                        *)
C29_TokenNotInBody ==
    (authResponse # NoAuthResponse /\ authResponse.kind = "json") =>
       "accessToken" \notin DOMAIN authResponse.body

----------------------------------------------------------------------------
\* The label-inbox requests (POST /api/gmail) the page has in flight.
InFlight == { i \in DOMAIN page.runs : page.runs[i] = "post" }

\* The ways handleLabelInbox can be left.
ExitPaths == { "notAuthenticated", "httpError", "exception", "ok" }

(* C27. UI processing flag: every run of handleLabelInbox resets           *)
(* isProcessing to false on every exit path (not authenticated, HTTP error *)
(* response, network exception, success), so that a processing page        *)
(* eventually stops processing; and because the button is disabled while   *)
(* isProcessing is true, a page never has two label-inbox requests in      *)
(* flight at once.                                                         *)
C27_ProcessingFlag ==
    /\ [][ Len(page'.runs) < Len(page.runs) => ~ page'.isProcessing ]_vars
    /\ [] /\ page.isProcessing <=> page.runs # << >>
          /\ Len(page.runs) <= 1
          /\ Cardinality(InFlight) <= 1
          /\ page.exits \subseteq ExitPaths
    /\ page.isProcessing ~> ~ page.isProcessing

\* The page has left handleLabelInbox by each of the four exit paths and is
\* not processing.
C27_Witness ==
    /\ page.exits = ExitPaths
    /\ ~ page.isProcessing
    /\ page.runs = << >>
    /\ page.clicks = 4

----------------------------------------------------------------------------
\* No two labels of the account bear the same Category name.
CategoryNamesUnique ==
    \A i, j \in DOMAIN labels :
       (labels[i] \in Categories /\ labels[i] = labels[j]) => i = j

(* C28, as claimed: when two processing requests for the same account      *)
(* interleave their list / classify / ensureLabel / modify steps, no       *)
(* Category name is created as a label more than once and no message ends  *)
(* up bearing two different Category labels.                               *)
C28_OverlapSafe ==
    reqs # NoReqs =>
       /\ CategoryNamesUnique
       /\ \A m \in DOMAIN msgs : Cardinality(CategoryLabelsOf(m)) <= 1

====
